---- MODULE Spec2Model ----
(***************************************************************************)
(* Subscription service of DanRulev/tz: the HTTP handlers                  *)
(* (internal/handler), the service layer (internal/service), the           *)
(* repository (internal/repository) with the constraints of the            *)
(* subscriptions table, and the month-date codec.                          *)
(*                                                                         *)
(* Modelling conventions                                                   *)
(*  - a Go string that the code inspects (a date) is a sequence of         *)
(*    one-character strings; opaque strings (service names, UUID texts)    *)
(*    are TLA+ strings;                                                    *)
(*  - a Go pointer is None (nil) or Some(v);                               *)
(*  - a time.Time is an integer number of ticks since 01-0000, with        *)
(*    TicksPerMonth ticks in a month; the process runs in UTC (the image   *)
(*    is alpine without tzdata), so every instant is in one location;      *)
(*  - the database is reachable: the only storage errors are the ones the  *)
(*    table's constraints raise.                                           *)
(***************************************************************************)
EXTENDS Integers, Sequences, FiniteSets, TLC

VARIABLES subscriptions, clock, writes, deleted, last, pending

vars == <<subscriptions, clock, writes, deleted, last, pending>>

----------------------------------------------------------------------------
(* Bounds *)

TicksPerMonth == 2   \* instants told apart inside one month
MaxWrites == 2       \* rows written (insert, update, delete) in one run
MaxShuffled == 3     \* rows of a table that is scanned in every order
MaxPaged == 3        \* rows of the largest table that is read page by page

----------------------------------------------------------------------------
(* Pointers *)

None == <<>>
Some(v) == <<v>>
IsSome(p) == p # <<>>
Val(p) == p[1]

----------------------------------------------------------------------------
(* Errors (internal/domain errors and the service's own) *)

NoErr == "nil"
ErrNotFound == "subscription not found"
ErrInvalidDate == "invalid date"
ErrInvalidDateFormat == "invalid date format, expected MM-YYYY"
ErrOrdering == "end_date must be after start_date"
ErrInvalidUserID == "invalid user_id"
ErrStorage == "storage failure"
ErrValidation == "validation failed"
ErrInvalidID == "invalid subscription ID"

----------------------------------------------------------------------------
(* time.Time at tick granularity *)

Date(year, month) == (year * 12 + (month - 1)) * TicksPerMonth

Year(t) == (t \div TicksPerMonth) \div 12

Month(t) == ((t \div TicksPerMonth) % 12) + 1

\* the operands in the wrong order
BeforeSwapped(a, b) == b < a

Before(a, b) == a < b

After(a, b) == a > b

maxTime(a, b) == IF After(a, b) THEN a ELSE b

\* the later of the two instants
minTimeLater(a, b) == IF Before(a, b) THEN b ELSE a

minTime(a, b) == IF Before(a, b) THEN a ELSE b

\* both the first and the last month counted
monthsBetweenInclusive(start, end) ==
    LET s == Date(Year(start), Month(start))
        e == Date(Year(end), Month(end))
    IN  IF Before(e, s) THEN 0
        ELSE (Year(e) - Year(s)) * 12 + (Month(e) - Month(s)) + 1

monthsBetween(start, end) ==
    LET s == Date(Year(start), Month(start))
        e == Date(Year(end), Month(end))
    IN  IF Before(e, s) THEN 0
        ELSE (Year(e) - Year(s)) * 12 + (Month(e) - Month(s))

----------------------------------------------------------------------------
(* strconv.Atoi, strings.Split, fmt.Sprintf("%02d-%d") *)

DigitVal == "0" :> 0 @@ "1" :> 1 @@ "2" :> 2 @@ "3" :> 3 @@ "4" :> 4 @@
            "5" :> 5 @@ "6" :> 6 @@ "7" :> 7 @@ "8" :> 8 @@ "9" :> 9

DigitChar == <<"0", "1", "2", "3", "4", "5", "6", "7", "8", "9">>

RECURSIVE DigitsValue(_)
DigitsValue(s) ==
    IF s = <<>> THEN 0
    ELSE DigitsValue(SubSeq(s, 1, Len(s) - 1)) * 10 + DigitVal[s[Len(s)]]

\* strconv.Atoi: an optional sign, then at least one decimal digit.
Atoi(s) ==
    LET signed == s # <<>> /\ s[1] \in {"+", "-"}
        body == IF signed THEN Tail(s) ELSE s
    IN  IF body = <<>> \/ \E i \in 1..Len(body) : body[i] \notin DOMAIN DigitVal
        THEN [ok |-> FALSE, val |-> 0]
        ELSE [ok |-> TRUE,
              val |-> IF signed /\ s[1] = "-" THEN 0 - DigitsValue(body)
                      ELSE DigitsValue(body)]

RECURSIVE Split(_, _)
Split(s, sep) ==
    IF \E i \in 1..Len(s) : s[i] = sep
    THEN LET i == CHOOSE k \in 1..Len(s) :
                      s[k] = sep /\ \A j \in 1..(k - 1) : s[j] # sep
         IN  <<SubSeq(s, 1, i - 1)>> \o Split(SubSeq(s, i + 1, Len(s)), sep)
    ELSE <<s>>

RECURSIVE Itoa(_)
Itoa(n) ==
    IF n < 0 THEN <<"-">> \o Itoa(0 - n)
    ELSE IF n < 10 THEN <<DigitChar[n + 1]>>
    ELSE Itoa(n \div 10) \o <<DigitChar[(n % 10) + 1]>>

\* %02d of a non-negative number
Pad2(n) == IF n >= 0 /\ n < 10 THEN <<"0">> \o Itoa(n) ELSE Itoa(n)

\* the range of the month not checked: time.Date carries month 13 over
parseDateAnyMonth(dateStr) ==
    LET parts == Split(dateStr, "-") IN
    IF Len(parts) # 2 THEN [err |-> ErrInvalidDateFormat, t |-> 0]
    ELSE LET month == Atoi(parts[1])
             year == Atoi(parts[2])
         IN  IF ~month.ok THEN [err |-> ErrInvalidDate, t |-> 0]
             ELSE IF ~year.ok THEN [err |-> ErrInvalidDate, t |-> 0]
             ELSE [err |-> NoErr, t |-> Date(year.val, month.val)]

parseDate(dateStr) ==
    LET parts == Split(dateStr, "-") IN
    IF Len(parts) # 2 THEN [err |-> ErrInvalidDateFormat, t |-> 0]
    ELSE LET month == Atoi(parts[1])
             year == Atoi(parts[2])
         IN  IF ~month.ok THEN [err |-> ErrInvalidDate, t |-> 0]
             ELSE IF ~year.ok THEN [err |-> ErrInvalidDate, t |-> 0]
             ELSE IF month.val < 1 \/ month.val > 12
                  THEN [err |-> ErrInvalidDate, t |-> 0]
             ELSE [err |-> NoErr, t |-> Date(year.val, month.val)]

parseTimeToString(t) == Pad2(Month(t)) \o <<"-">> \o Itoa(Year(t))

\* time.Format(time.DateTime), as far as ticks tell instants apart
FormatDateTime(t) == <<Year(t), Month(t), t % TicksPerMonth>>

----------------------------------------------------------------------------
(* uuid.Parse (github.com/google/uuid) *)

NilUUID == "00000000-0000-0000-0000-000000000000"

User1 == "60601fee-2bf1-4721-ae6f-7636e79a0cba"
User2 == "7c9e6679-7425-40de-944b-e07fc1f90ae7"

ValidUUIDs == {User1, User2}

uuidParse(s) ==
    IF s \in ValidUUIDs THEN [ok |-> TRUE, id |-> s]
    ELSE [ok |-> FALSE, id |-> NilUUID]

\* identifiers uuid.New() may draw
IDs == {"id1", "id2"}

----------------------------------------------------------------------------
(* domain.Subscription, dto.SubscriptionOutput and their zero values *)

ZeroTime == Date(1, 1)

ZeroSubscription ==
    [ID |-> NilUUID, ServiceName |-> "", Price |-> 0, UserID |-> NilUUID,
     StartDate |-> ZeroTime, EndDate |-> None,
     CreatedAt |-> ZeroTime, UpdatedAt |-> ZeroTime]

ZeroOutput ==
    [ID |-> "", ServiceName |-> "", Price |-> 0, UserID |-> "",
     StartDate |-> <<>>, EndDate |-> None,
     CreatedAt |-> <<>>, UpdatedAt |-> <<>>]

subscriptionToDto(s) ==
    [ID |-> s.ID, ServiceName |-> s.ServiceName, Price |-> s.Price,
     UserID |-> s.UserID,
     StartDate |-> parseTimeToString(s.StartDate),
     EndDate |-> IF IsSome(s.EndDate)
                 THEN Some(parseTimeToString(Val(s.EndDate))) ELSE None,
     CreatedAt |-> FormatDateTime(s.CreatedAt),
     UpdatedAt |-> FormatDateTime(s.UpdatedAt)]

\* the zero value of dto.SubscriptionsOutput
ZeroPage ==
    [Total |-> 0, Page |-> 0, PageSize |-> 0, HasNextPage |-> FALSE,
     HasPrevPage |-> FALSE, Subscriptions |-> <<>>]

\* the page after this one announced whenever the total is not zero
MakeOutputNextIfAny(subs, total, page, pageSize) ==
    [Total |-> total, Page |-> page, PageSize |-> pageSize,
     HasNextPage |-> total > 0,
     HasPrevPage |-> page > 1,
     Subscriptions |-> subs]

MakeSubscriptionsOutput(subs, total, page, pageSize) ==
    [Total |-> total, Page |-> page, PageSize |-> pageSize,
     HasNextPage |-> total > page * pageSize,
     HasPrevPage |-> page > 1,
     Subscriptions |-> subs]

----------------------------------------------------------------------------
(* The subscriptions table: a function from the stored ids to their rows. *)

\* the table without its constraint on the price
price_unchecked(price) == TRUE

\* CHECK (price > 0)
price_check(price) == price > 0

\* the table without its constraint on the two dates
end_date_unchecked(start_date, end_date) == TRUE

\* CONSTRAINT end_date_not_before_start.  The migration writes it after
\* updated_at without a comma, so PostgreSQL reads it as a constraint of
\* that column; it is checked on every insert and update all the same.
end_date_not_before_start(start_date, end_date) ==
    end_date = None \/ Val(end_date) >= start_date

RowOK(row) ==
    /\ price_check(row.Price)
    /\ end_date_not_before_start(row.StartDate, row.EndDate)

----------------------------------------------------------------------------
(* internal/repository: every operator returns the table it leaves. *)

RepoCreateSubscription(db, now, sub) ==
    LET row == [sub EXCEPT !.CreatedAt = now, !.UpdatedAt = now] IN
    IF sub.ID \in DOMAIN db \/ ~RowOK(row)
    THEN [db |-> db, sub |-> ZeroSubscription, err |-> ErrStorage]
    ELSE [db |-> (sub.ID :> row) @@ db, sub |-> row, err |-> NoErr]

\* sql.ErrNoRows not told apart: the zero value returned as a success
RepoSubscriptionByIDZero(db, id) ==
    IF id \notin DOMAIN db
    THEN [db |-> db, sub |-> ZeroSubscription, err |-> NoErr]
    ELSE [db |-> db, sub |-> db[id], err |-> NoErr]

RepoSubscriptionByID(db, id) ==
    IF id \notin DOMAIN db
    THEN [db |-> db, sub |-> ZeroSubscription, err |-> ErrNotFound]
    ELSE [db |-> db, sub |-> db[id], err |-> NoErr]

\* the service name left out of the WHERE clause
MatchUserOnly(row, userID, serviceName) ==
    IsSome(userID) => row.UserID = Val(userID)

\* the rows the WHERE clause built from the optional filters selects
MatchFilter(row, userID, serviceName) ==
    /\ IsSome(userID) => row.UserID = Val(userID)
    /\ IsSome(serviceName) => row.ServiceName = Val(serviceName)

RepoSubscriptionsCost(db, filter) ==
    [subs |-> {db[id] : id \in {i \in DOMAIN db :
                   MatchFilter(db[i], filter.UserID, filter.ServiceName)}},
     err |-> NoErr]

\* The orders in which a SELECT without ORDER BY may scan the table: every
\* order of its ids when it has at most MaxShuffled rows, one order of them
\* when it has more.
RECURSIVE OneScan(_)
OneScan(ids) ==
    IF ids = {} THEN <<>>
    ELSE LET i == CHOOSE x \in ids : TRUE IN <<i>> \o OneScan(ids \ {i})

Scans(db) ==
    IF Cardinality(DOMAIN db) > MaxShuffled THEN {OneScan(DOMAIN db)}
    ELSE {f \in [1..Cardinality(DOMAIN db) -> DOMAIN db] :
              \A i \in DOMAIN db : \E n \in DOMAIN f : f[n] = i}

\* the rows of the table that match, in the order of the scan
RECURSIVE Matching(_, _, _, _)
Matching(db, scan, userID, serviceName) ==
    IF scan = <<>> THEN <<>>
    ELSE (IF MatchFilter(db[Head(scan)], userID, serviceName)
          THEN <<db[Head(scan)]>> ELSE <<>>)
         \o Matching(db, Tail(scan), userID, serviceName)

\* LIMIT limit OFFSET offset
LimitOffset(rows, limit, offset) ==
    SubSeq(rows, offset + 1,
           IF offset + limit < Len(rows) THEN offset + limit ELSE Len(rows))

\* COUNT(*) taken without the WHERE clause
RepoSubscriptionsCountAll(db, scan, filter) ==
    LET rows == Matching(db, scan, filter.UserID, filter.ServiceName)
        total == Cardinality(DOMAIN db)
    IN  IF total = 0 THEN [subs |-> <<>>, total |-> 0, err |-> NoErr]
        ELSE [subs |-> LimitOffset(rows, filter.Limit, filter.Offset),
              total |-> total, err |-> NoErr]

RepoSubscriptions(db, scan, filter) ==
    LET rows == Matching(db, scan, filter.UserID, filter.ServiceName)
        total == Len(rows)
    IN  IF total = 0 THEN [subs |-> <<>>, total |-> 0, err |-> NoErr]
        ELSE [subs |-> LimitOffset(rows, filter.Limit, filter.Offset),
              total |-> total, err |-> NoErr]

\* INSERT ... ON CONFLICT DO UPDATE in the place of UPDATE: a row that is
\* not stored is written from the fields of the request
RepoUpdateUpserts(db, now, id, sub) ==
    IF /\ ~IsSome(sub.ServiceName) /\ ~IsSome(sub.Price)
       /\ ~IsSome(sub.StartDate) /\ ~IsSome(sub.EndDate)
    THEN RepoSubscriptionByID(db, id)
    ELSE LET old == IF id \in DOMAIN db THEN db[id]
                    ELSE [ZeroSubscription EXCEPT
                             !.ID = id, !.UserID = User1, !.Price = 1,
                             !.CreatedAt = now]
             row == [old EXCEPT
                 !.ServiceName = IF IsSome(sub.ServiceName)
                                 THEN Val(sub.ServiceName) ELSE @,
                 !.Price = IF IsSome(sub.Price) THEN Val(sub.Price) ELSE @,
                 !.StartDate = IF IsSome(sub.StartDate)
                               THEN Val(sub.StartDate) ELSE @,
                 !.EndDate = IF IsSome(sub.EndDate)
                             THEN Some(Val(sub.EndDate)) ELSE @,
                 !.UpdatedAt = now]
         IN  IF ~RowOK(row)
             THEN [db |-> db, sub |-> ZeroSubscription, err |-> ErrStorage]
             ELSE [db |-> (id :> row) @@ db, sub |-> row, err |-> NoErr]

\* updated_at left out of the SET clause
RepoUpdateKeepsTimestamp(db, now, id, sub) ==
    IF /\ ~IsSome(sub.ServiceName) /\ ~IsSome(sub.Price)
       /\ ~IsSome(sub.StartDate) /\ ~IsSome(sub.EndDate)
    THEN RepoSubscriptionByID(db, id)
    ELSE IF id \notin DOMAIN db
    THEN [db |-> db, sub |-> ZeroSubscription, err |-> ErrNotFound]
    ELSE LET old == db[id]
             row == [old EXCEPT
                 !.ServiceName = IF IsSome(sub.ServiceName)
                                 THEN Val(sub.ServiceName) ELSE @,
                 !.Price = IF IsSome(sub.Price) THEN Val(sub.Price) ELSE @,
                 !.StartDate = IF IsSome(sub.StartDate)
                               THEN Val(sub.StartDate) ELSE @,
                 !.EndDate = IF IsSome(sub.EndDate)
                             THEN Some(Val(sub.EndDate)) ELSE @]
         IN  IF ~RowOK(row)
             THEN [db |-> db, sub |-> ZeroSubscription, err |-> ErrStorage]
             ELSE [db |-> [db EXCEPT ![id] = row], sub |-> row, err |-> NoErr]

\* no early return when no field is set: updated_at is written all the same
RepoUpdateAlwaysWrites(db, now, id, sub) ==
    IF id \notin DOMAIN db
    THEN [db |-> db, sub |-> ZeroSubscription, err |-> ErrNotFound]
    ELSE LET old == db[id]
             row == [old EXCEPT
                 !.ServiceName = IF IsSome(sub.ServiceName)
                                 THEN Val(sub.ServiceName) ELSE @,
                 !.Price = IF IsSome(sub.Price) THEN Val(sub.Price) ELSE @,
                 !.StartDate = IF IsSome(sub.StartDate)
                               THEN Val(sub.StartDate) ELSE @,
                 !.EndDate = IF IsSome(sub.EndDate)
                             THEN Some(Val(sub.EndDate)) ELSE @,
                 !.UpdatedAt = now]
         IN  IF ~RowOK(row)
             THEN [db |-> db, sub |-> ZeroSubscription, err |-> ErrStorage]
             ELSE [db |-> [db EXCEPT ![id] = row], sub |-> row, err |-> NoErr]

RepoUpdateSubscription(db, now, id, sub) ==
    IF /\ ~IsSome(sub.ServiceName) /\ ~IsSome(sub.Price)
       /\ ~IsSome(sub.StartDate) /\ ~IsSome(sub.EndDate)
    THEN RepoSubscriptionByID(db, id)
    ELSE IF id \notin DOMAIN db
    THEN [db |-> db, sub |-> ZeroSubscription, err |-> ErrNotFound]
    ELSE LET old == db[id]
             row == [old EXCEPT
                 !.ServiceName = IF IsSome(sub.ServiceName)
                                 THEN Val(sub.ServiceName) ELSE @,
                 !.Price = IF IsSome(sub.Price) THEN Val(sub.Price) ELSE @,
                 !.StartDate = IF IsSome(sub.StartDate)
                               THEN Val(sub.StartDate) ELSE @,
                 !.EndDate = IF IsSome(sub.EndDate)
                             THEN Some(Val(sub.EndDate)) ELSE @,
                 !.UpdatedAt = now]
         IN  IF ~RowOK(row)
             THEN [db |-> db, sub |-> ZeroSubscription, err |-> ErrStorage]
             ELSE [db |-> [db EXCEPT ![id] = row], sub |-> row, err |-> NoErr]

\* RowsAffected not looked at
RepoDeleteSilent(db, id) ==
    [db |-> [i \in DOMAIN db \ {id} |-> db[i]], err |-> NoErr]

RepoDeleteSubscription(db, id) ==
    IF id \notin DOMAIN db
    THEN [db |-> db, err |-> ErrNotFound]
    ELSE [db |-> [i \in DOMAIN db \ {id} |-> db[i]], err |-> NoErr]

----------------------------------------------------------------------------
(* internal/service: every operator returns the table it leaves, the       *)
(* output, the error and the repository methods it called, in order.       *)

Reject(db, err) == [db |-> db, out |-> ZeroOutput, err |-> err, calls |-> <<>>]

SvcCreateSubscription(db, now, id, req) ==
    LET sd == parseDate(req.StartDate)
        ed == IF IsSome(req.EndDate) THEN parseDate(Val(req.EndDate))
              ELSE [err |-> NoErr, t |-> 0]
        uid == uuidParse(req.UserID)
    IN  IF sd.err # NoErr THEN Reject(db, sd.err)
        ELSE IF IsSome(req.EndDate) /\ ed.err # NoErr THEN Reject(db, ed.err)
        ELSE IF IsSome(req.EndDate) /\ Before(ed.t, sd.t)
             THEN Reject(db, ErrOrdering)
        ELSE IF ~uid.ok THEN Reject(db, ErrInvalidUserID)
        ELSE LET subscription ==
                     [ZeroSubscription EXCEPT
                         !.ID = id,
                         !.ServiceName = req.ServiceName,
                         !.Price = req.Price,
                         !.StartDate = sd.t,
                         !.EndDate = IF IsSome(req.EndDate)
                                     THEN Some(ed.t) ELSE None,
                         !.UserID = uid.id]
                 r == RepoCreateSubscription(db, now, subscription)
             IN  IF r.err # NoErr
                 THEN [db |-> r.db, out |-> ZeroOutput, err |-> ErrStorage,
                       calls |-> <<"CreateSubscription">>]
                 ELSE [db |-> r.db, out |-> subscriptionToDto(r.sub),
                       err |-> NoErr, calls |-> <<"CreateSubscription">>]

SvcSubscriptionByID(db, id) ==
    LET r == RepoSubscriptionByID(db, id) IN
    IF r.err # NoErr
    THEN [db |-> r.db, out |-> ZeroOutput, err |-> r.err,
          calls |-> <<"SubscriptionByID">>]
    ELSE [db |-> r.db, out |-> subscriptionToDto(r.sub), err |-> NoErr,
          calls |-> <<"SubscriptionByID">>]

\* the two dates of a request not compared: both forwarded as they are
SvcUpdateNoOrdering(db, now, id, req) ==
    LET sd == IF IsSome(req.StartDate) THEN parseDate(Val(req.StartDate))
              ELSE [err |-> NoErr, t |-> 0]
        ed == IF IsSome(req.EndDate) THEN parseDate(Val(req.EndDate))
              ELSE [err |-> NoErr, t |-> 0]
    IN  IF IsSome(req.StartDate) /\ sd.err # NoErr THEN Reject(db, sd.err)
        ELSE IF IsSome(req.EndDate) /\ ed.err # NoErr THEN Reject(db, ed.err)
        ELSE LET r == RepoUpdateSubscription(db, now, id,
                          [Price |-> req.Price,
                           ServiceName |-> req.ServiceName,
                           StartDate |-> IF IsSome(req.StartDate)
                                         THEN Some(sd.t) ELSE None,
                           EndDate |-> IF IsSome(req.EndDate)
                                       THEN Some(ed.t) ELSE None])
             IN  IF r.err # NoErr
                 THEN [db |-> r.db, out |-> ZeroOutput, err |-> r.err,
                       calls |-> <<"UpdateSubscription">>]
                 ELSE [db |-> r.db, out |-> subscriptionToDto(r.sub),
                       err |-> NoErr, calls |-> <<"UpdateSubscription">>]

SvcUpdateSubscription(db, now, id, req) ==
    LET sd == IF IsSome(req.StartDate) THEN parseDate(Val(req.StartDate))
              ELSE [err |-> NoErr, t |-> 0]
        ed == IF IsSome(req.EndDate) THEN parseDate(Val(req.EndDate))
              ELSE [err |-> NoErr, t |-> 0]
    IN  IF IsSome(req.StartDate) /\ sd.err # NoErr THEN Reject(db, sd.err)
        ELSE IF IsSome(req.EndDate) /\ ed.err # NoErr THEN Reject(db, ed.err)
        ELSE IF /\ IsSome(req.StartDate) /\ IsSome(req.EndDate)
                /\ Before(ed.t, sd.t)
             THEN Reject(db, ErrOrdering)
        ELSE LET r == RepoUpdateSubscription(db, now, id,
                          [Price |-> req.Price,
                           ServiceName |-> req.ServiceName,
                           StartDate |-> IF IsSome(req.StartDate)
                                         THEN Some(sd.t) ELSE None,
                           EndDate |-> IF IsSome(req.EndDate)
                                       THEN Some(ed.t) ELSE None])
             IN  IF r.err # NoErr
                 THEN [db |-> r.db, out |-> ZeroOutput, err |-> r.err,
                       calls |-> <<"UpdateSubscription">>]
                 ELSE [db |-> r.db, out |-> subscriptionToDto(r.sub),
                       err |-> NoErr, calls |-> <<"UpdateSubscription">>]

SvcDeleteSubscription(db, id) ==
    LET r == RepoDeleteSubscription(db, id) IN
    [db |-> r.db, out |-> ZeroOutput, err |-> r.err,
     calls |-> <<"DeleteSubscription">>]

\* an open-ended subscription billed through the end of the window
ContributionThroughTo(sub, now, startDate, endDate) ==
    LET actualStart == sub.StartDate
        actualEnd == IF IsSome(sub.EndDate) THEN Val(sub.EndDate)
                     ELSE IF IsSome(endDate) THEN Val(endDate) ELSE now
        calcStart == IF IsSome(startDate)
                     THEN maxTime(actualStart, Val(startDate)) ELSE actualStart
        calcEnd == IF IsSome(endDate)
                   THEN minTime(actualEnd, Val(endDate)) ELSE actualEnd
    IN  IF Before(calcEnd, calcStart) THEN 0
        ELSE sub.Price * monthsBetween(calcStart, calcEnd)

\* no test of the overlap: the difference of the months taken as it is
ContributionSigned(sub, now, startDate, endDate) ==
    LET actualStart == sub.StartDate
        actualEnd == IF IsSome(sub.EndDate) THEN Val(sub.EndDate) ELSE now
        calcStart == IF IsSome(startDate)
                     THEN maxTime(actualStart, Val(startDate)) ELSE actualStart
        calcEnd == IF IsSome(endDate)
                   THEN minTime(actualEnd, Val(endDate)) ELSE actualEnd
    IN  sub.Price * ((Year(calcEnd) - Year(calcStart)) * 12
                        + (Month(calcEnd) - Month(calcStart)))

\* the month of calcEnd counted as well
ContributionThroughLastMonth(sub, now, startDate, endDate) ==
    LET actualStart == sub.StartDate
        actualEnd == IF IsSome(sub.EndDate) THEN Val(sub.EndDate) ELSE now
        calcStart == IF IsSome(startDate)
                     THEN maxTime(actualStart, Val(startDate)) ELSE actualStart
        calcEnd == IF IsSome(endDate)
                   THEN minTime(actualEnd, Val(endDate)) ELSE actualEnd
    IN  IF Before(calcEnd, calcStart) THEN 0
        ELSE sub.Price * (monthsBetween(calcStart, calcEnd) + 1)

\* one turn of the loop of SubscriptionsCost: what sub adds to total
Contribution(sub, now, startDate, endDate) ==
    LET actualStart == sub.StartDate
        actualEnd == IF IsSome(sub.EndDate) THEN Val(sub.EndDate) ELSE now
        calcStart == IF IsSome(startDate)
                     THEN maxTime(actualStart, Val(startDate)) ELSE actualStart
        calcEnd == IF IsSome(endDate)
                   THEN minTime(actualEnd, Val(endDate)) ELSE actualEnd
    IN  IF Before(calcEnd, calcStart) THEN 0
        ELSE sub.Price * monthsBetween(calcStart, calcEnd)

RECURSIVE TotalCost(_, _, _, _)
TotalCost(subs, now, startDate, endDate) ==
    IF subs = {} THEN 0
    ELSE LET sub == CHOOSE x \in subs : TRUE
         IN  Contribution(sub, now, startDate, endDate)
               + TotalCost(subs \ {sub}, now, startDate, endDate)

SvcSubscriptionsCost(db, now, filter) ==
    LET uid == IF IsSome(filter.UserID) THEN uuidParse(Val(filter.UserID))
               ELSE [ok |-> TRUE, id |-> NilUUID]
        sd == IF IsSome(filter.From) THEN parseDate(Val(filter.From))
              ELSE [err |-> NoErr, t |-> 0]
        ed == IF IsSome(filter.To) THEN parseDate(Val(filter.To))
              ELSE [err |-> NoErr, t |-> 0]
    IN  IF ~uid.ok
        THEN [db |-> db, out |-> 0, err |-> ErrInvalidUserID, calls |-> <<>>]
        ELSE IF sd.err # NoErr
        THEN [db |-> db, out |-> 0, err |-> sd.err, calls |-> <<>>]
        ELSE IF ed.err # NoErr
        THEN [db |-> db, out |-> 0, err |-> ed.err, calls |-> <<>>]
        ELSE LET r == RepoSubscriptionsCost(db,
                          [ServiceName |-> filter.ServiceName,
                           UserID |-> IF IsSome(filter.UserID)
                                      THEN Some(uid.id) ELSE None])
             IN  [db |-> db,
                  out |-> TotalCost(r.subs, now,
                              IF IsSome(filter.From) THEN Some(sd.t) ELSE None,
                              IF IsSome(filter.To) THEN Some(ed.t) ELSE None),
                  err |-> NoErr, calls |-> <<"SubscriptionsCost">>]

RECURSIVE ToDtos(_)
ToDtos(subs) ==
    IF subs = <<>> THEN <<>>
    ELSE <<subscriptionToDto(Head(subs))>> \o ToDtos(Tail(subs))

\* asked is the domain.SubscriptionFilter handed to the repository
SvcSubscriptions(db, scan, filter) ==
    LET uid == IF IsSome(filter.UserID) THEN uuidParse(Val(filter.UserID))
               ELSE [ok |-> TRUE, id |-> NilUUID]
        asked == [UserID |-> IF IsSome(filter.UserID)
                             THEN Some(uid.id) ELSE None,
                  ServiceName |-> filter.ServiceName,
                  Limit |-> filter.PageSize,
                  Offset |-> (filter.Page - 1) * filter.PageSize]
        r == RepoSubscriptions(db, scan, asked)
    IN  IF ~uid.ok
        THEN [db |-> db, out |-> ZeroPage, err |-> ErrInvalidUserID,
              calls |-> <<>>, asked |-> None]
        ELSE [db |-> db,
              out |-> MakeSubscriptionsOutput(ToDtos(r.subs), r.total,
                          filter.Page, filter.PageSize),
              err |-> NoErr, calls |-> <<"Subscriptions">>, asked |-> Some(asked)]

----------------------------------------------------------------------------
(* internal/handler: every operator returns what the service returned, the *)
(* request it handed to the service, and the status and the error message  *)
(* of the HTTP response.                                                   *)

StatusOK == 200
StatusNoContent == 204
StatusBadRequest == 400
StatusNotFound == 404
StatusInternalServerError == 500

MsgInternal == "internal error"

Answer(r, req, status, msg) ==
    [db |-> r.db, out |-> r.out, err |-> r.err, calls |-> r.calls,
     asked |-> IF "asked" \in DOMAIN r THEN r.asked ELSE None,
     req |-> req, status |-> status, msg |-> msg]

\* a JSON member that is present with the value null
JsonNull == <<"json", "null">>

\* encoding/json leaves a pointer nil for an absent member and sets it to
\* nil for a null one
BindJSON(body) ==
    [f \in DOMAIN body |-> IF body[f] = JsonNull THEN None ELSE body[f]]

\* the validate tags of dto.CreateSubscriptionRequest: required on the
\* name, the price, the user id and the start date, min=0 on the price
ValidateCreate(req) ==
    /\ req.ServiceName # ""
    /\ req.Price # 0
    /\ req.Price >= 0
    /\ req.UserID # ""
    /\ req.StartDate # <<>>

\* the validate tag of dto.UpdateSubscriptionRequest: omitempty,min=0 on
\* the price
ValidateUpdate(req) == IsSome(req.Price) => Val(req.Price) >= 0

\* the identifiers of IDs stand for the texts uuid.Parse accepts
parseID(idStr) ==
    IF idStr = "" \/ idStr \notin IDs THEN [ok |-> FALSE, id |-> NilUUID]
    ELSE [ok |-> TRUE, id |-> idStr]

createSubscription(db, now, id, req) ==
    IF ~ValidateCreate(req)
    THEN Answer(Reject(db, ErrValidation), req, StatusBadRequest,
                ErrValidation)
    ELSE LET r == SvcCreateSubscription(db, now, id, req) IN
         IF r.err # NoErr
         THEN Answer(r, req, StatusInternalServerError, MsgInternal)
         ELSE Answer(r, req, StatusOK, "")

listSubscriptions(db, scan, query) ==
    LET paged == [query EXCEPT !.Page = IF @ < 1 THEN 1 ELSE @]
        filter == [paged EXCEPT
                      !.PageSize = IF @ < 1 \/ @ > 100 THEN 10 ELSE @]
        r == SvcSubscriptions(db, scan, filter)
    IN  IF r.err # NoErr
        THEN Answer(r, filter, StatusInternalServerError, MsgInternal)
        ELSE Answer(r, filter, StatusOK, "")

subscriptionsCost(db, now, request) ==
    LET r == SvcSubscriptionsCost(db, now, request) IN
    IF r.err # NoErr
    THEN Answer(r, request, StatusInternalServerError, MsgInternal)
    ELSE Answer(r, request, StatusOK, "")

subscription(db, idStr) ==
    LET id == parseID(idStr) IN
    IF ~id.ok
    THEN Answer(Reject(db, ErrInvalidID), None, StatusBadRequest,
                ErrInvalidID)
    ELSE LET r == SvcSubscriptionByID(db, id.id) IN
         IF r.err = ErrNotFound
         THEN Answer(r, None, StatusNotFound, ErrNotFound)
         ELSE IF r.err # NoErr
         THEN Answer(r, None, StatusInternalServerError, MsgInternal)
         ELSE Answer(r, None, StatusOK, "")

updateSubscription(db, now, idStr, body) ==
    LET id == parseID(idStr)
        req == BindJSON(body)
    IN  IF ~id.ok
        THEN Answer(Reject(db, ErrInvalidID), req, StatusBadRequest,
                    ErrInvalidID)
        ELSE IF ~ValidateUpdate(req)
        THEN Answer(Reject(db, ErrValidation), req, StatusBadRequest,
                    ErrValidation)
        ELSE LET r == SvcUpdateSubscription(db, now, id.id, req) IN
             IF r.err # NoErr
             THEN Answer(r, req, StatusInternalServerError, MsgInternal)
             ELSE Answer(r, req, StatusOK, "")

deleteSubscription(db, idStr) ==
    LET id == parseID(idStr) IN
    IF ~id.ok
    THEN Answer(Reject(db, ErrInvalidID), None, StatusBadRequest,
                ErrInvalidID)
    ELSE LET r == SvcDeleteSubscription(db, id.id) IN
         IF r.err # NoErr
         THEN Answer(r, None, StatusInternalServerError, MsgInternal)
         ELSE Answer(r, None, StatusNoContent, "")

----------------------------------------------------------------------------
(* Inputs *)

D07_2025 == <<"0", "7", "-", "2", "0", "2", "5">>
D09_2025 == <<"0", "9", "-", "2", "0", "2", "5">>
D12_2024 == <<"1", "2", "-", "2", "0", "2", "4">>
D13_2025 == <<"1", "3", "-", "2", "0", "2", "5">>
D7s2025 == <<"7", "/", "2", "0", "2", "5">>

\* the create request of the README and of the swagger examples
BaseCreate ==
    [ServiceName |-> "Yandex Plus", Price |-> 400, UserID |-> User1,
     StartDate |-> D07_2025, EndDate |-> None]

\* the base request, the requests that differ from it in one field, and a
\* closed subscription of another user that runs over the turn of the year
CreateRequests ==
    {BaseCreate}
    \cup {[BaseCreate EXCEPT !.ServiceName = v] : v \in {"Netflix"}}
    \cup {[BaseCreate EXCEPT !.Price = v] : v \in {0, -5}}
    \cup {[BaseCreate EXCEPT !.UserID = v] : v \in {"not-a-uuid"}}
    \cup {[BaseCreate EXCEPT !.StartDate = v] :
              v \in {D09_2025, D12_2024, D13_2025, D7s2025}}
    \cup {[BaseCreate EXCEPT !.EndDate = Some(v)] :
              v \in {D07_2025, D09_2025, D12_2024, D13_2025}}
    \cup {[ServiceName |-> "Netflix", Price |-> 100, UserID |-> User2,
           StartDate |-> D12_2024, EndDate |-> Some(D09_2025)]}

NoUpdate ==
    [ServiceName |-> None, Price |-> None, StartDate |-> None,
     EndDate |-> None]

\* the empty update, the updates of one field, and two of both dates
UpdateRequests ==
    {NoUpdate}
    \cup {[NoUpdate EXCEPT !.ServiceName = Some(v)] : v \in {"Netflix"}}
    \cup {[NoUpdate EXCEPT !.Price = Some(v)] : v \in {0, -5, 100}}
    \cup {[NoUpdate EXCEPT !.StartDate = Some(v)] : v \in {D09_2025, D13_2025}}
    \cup {[NoUpdate EXCEPT !.EndDate = Some(v)] :
              v \in {D07_2025, D12_2024, D7s2025}}
    \cup {[NoUpdate EXCEPT !.StartDate = Some(D07_2025),
                           !.EndDate = Some(D09_2025)],
          [NoUpdate EXCEPT !.StartDate = Some(D09_2025),
                           !.EndDate = Some(D07_2025)]}

\* the bodies of the update requests: the requests above, and the body
\* whose only member is "end_date": null
UpdateBodies ==
    UpdateRequests \cup {[NoUpdate EXCEPT !.EndDate = JsonNull]}

\* the first page of ten of every subscription
NoList ==
    [UserID |-> None, ServiceName |-> None, Page |-> 1, PageSize |-> 10]

\* the unfiltered queries of some pages, one of them with both numbers
\* out of range; the filtered queries of the first two pages of one; and
\* the query with a malformed user id
ListRequests ==
    {[NoList EXCEPT !.Page = pp[1], !.PageSize = pp[2]] :
         pp \in {<<1, 1>>, <<2, 1>>, <<1, 2>>, <<5, 10>>, <<0, 101>>}}
    \cup {[UserID |-> u, ServiceName |-> n, Page |-> p, PageSize |-> 1] :
              u \in {None, Some(User1)}, n \in {None, Some("Netflix")},
              p \in {1, 2}}
    \cup {[NoList EXCEPT !.UserID = Some("not-a-uuid")]}

NoFilter ==
    [UserID |-> None, ServiceName |-> None, From |-> None, To |-> None]

\* the well-formed queries, two more whose window opens in December 2024,
\* and the queries with one malformed field
CostRequests ==
    [UserID : {None, Some(User1)},
     ServiceName : {None, Some("Netflix")},
     From : {None, Some(D07_2025)},
     To : {None, Some(D07_2025), Some(D09_2025)}]
    \cup {[NoFilter EXCEPT !.From = Some(D12_2024), !.To = Some(D07_2025)],
          [NoFilter EXCEPT !.From = Some(D12_2024), !.To = Some(D09_2025)]}
    \cup {[NoFilter EXCEPT !.UserID = Some("not-a-uuid")],
          [NoFilter EXCEPT !.From = Some(D13_2025)],
          [NoFilter EXCEPT !.To = Some(D7s2025)]}

\* the instants at which the clock is read: the last one of August 2025
\* and the first one of September 2025
Instants == {Date(2025, 9) - 1, Date(2025, 9)}

----------------------------------------------------------------------------
(* State machine: a request is served by one action, which leaves its      *)
(* response in last; Return hands the response to the caller.  Requests    *)
(* are served one at a time, and time passes between them.  writes counts  *)
(* the changes of the table and deleted remembers the identifiers that     *)
(* were deleted; neither is read by the program.  pending holds the        *)
(* requests that run side by side, each with its place in its handler, or  *)
(* the pages a client has read so far.                                     *)

NoCall ==
    [op |-> "none", id |-> NilUUID, req |-> None, out |-> None,
     err |-> NoErr, calls |-> <<>>, asked |-> None, status |-> 0,
     msg |-> ""]

\* no request is waiting for its statement
NoPending == <<>>

Init ==
    /\ subscriptions = <<>>
    /\ clock \in Instants
    /\ writes = 0
    /\ deleted = {}
    /\ last = NoCall
    /\ pending = NoPending

Idle == last.op = "none"

\* the table changes at most MaxWrites times in one run
WithinBudget(r) == r.db # subscriptions => writes < MaxWrites

Written(r) == IF r.db # subscriptions THEN writes + 1 ELSE writes

Response(op, id, r) ==
    [op |-> op, id |-> id, req |-> r.req, out |-> r.out, err |-> r.err,
     calls |-> r.calls, asked |-> r.asked, status |-> r.status,
     msg |-> r.msg]

CreateSubscription ==
    \E req \in CreateRequests, id \in IDs :
        LET r == createSubscription(subscriptions, clock, id, req) IN
        /\ Idle
        /\ WithinBudget(r)
        /\ subscriptions' = r.db
        /\ writes' = Written(r)
        /\ last' = Response("CreateSubscription", id, r)
        /\ UNCHANGED <<clock, deleted, pending>>

SubscriptionByID ==
    \E id \in IDs :
        LET r == subscription(subscriptions, id) IN
        /\ Idle
        /\ subscriptions' = r.db
        /\ last' = Response("SubscriptionByID", id, r)
        /\ UNCHANGED <<clock, writes, deleted, pending>>

Subscriptions ==
    \E query \in ListRequests, scan \in Scans(subscriptions) :
        LET r == listSubscriptions(subscriptions, scan, query) IN
        /\ Idle
        /\ subscriptions' = r.db
        /\ last' = Response("Subscriptions", NilUUID, r)
        /\ UNCHANGED <<clock, writes, deleted, pending>>

SubscriptionsCost ==
    \E request \in CostRequests :
        LET r == subscriptionsCost(subscriptions, clock, request) IN
        /\ Idle
        /\ subscriptions' = r.db
        /\ last' = Response("SubscriptionsCost", NilUUID, r)
        /\ UNCHANGED <<clock, writes, deleted, pending>>

UpdateSubscription ==
    \E id \in IDs, body \in UpdateBodies :
        LET r == updateSubscription(subscriptions, clock, id, body) IN
        /\ Idle
        /\ WithinBudget(r)
        /\ subscriptions' = r.db
        /\ writes' = Written(r)
        /\ last' = Response("UpdateSubscription", id, r)
        /\ UNCHANGED <<clock, deleted, pending>>

DeleteSubscription ==
    \E id \in IDs :
        LET r == deleteSubscription(subscriptions, id) IN
        /\ Idle
        /\ WithinBudget(r)
        /\ subscriptions' = r.db
        /\ writes' = Written(r)
        /\ last' = Response("DeleteSubscription", id, r)
        /\ deleted' = IF r.err = NoErr THEN deleted \cup {id} ELSE deleted
        /\ UNCHANGED <<clock, pending>>

Return ==
    /\ ~Idle
    /\ last' = NoCall
    /\ UNCHANGED <<subscriptions, clock, writes, deleted, pending>>

Tick ==
    /\ Idle
    /\ \E t \in Instants : t > clock /\ clock' = t
    /\ UNCHANGED <<subscriptions, writes, deleted, last, pending>>

Next ==
    \/ CreateSubscription
    \/ SubscriptionByID
    \/ Subscriptions
    \/ SubscriptionsCost
    \/ UpdateSubscription
    \/ DeleteSubscription
    \/ Return
    \/ Tick

Spec == Init /\ [][Next]_vars

----------------------------------------------------------------------------
(* Listing a table that is already filled: the tables of ListSizes rows,   *)
(* every row of them one the constraints of the table accept.              *)

ListSizes == {0, 1, 2, 3, 42}

ListID(i) == "id" \o ToString(i)

ListRow(i) ==
    [ID |-> ListID(i),
     ServiceName |-> IF i % 2 = 0 THEN "Netflix" ELSE "Yandex Plus",
     Price |-> 400,
     UserID |-> IF i % 3 = 0 THEN User2 ELSE User1,
     StartDate |-> Date(2025, 7), EndDate |-> None,
     CreatedAt |-> Date(2025, 8), UpdatedAt |-> Date(2025, 8)]

Stored(n) ==
    [id \in {ListID(i) : i \in 1..n} |->
         ListRow(CHOOSE i \in 1..n : ListID(i) = id)]

InitList ==
    /\ subscriptions \in {Stored(n) : n \in ListSizes}
    /\ clock \in Instants
    /\ writes = 0
    /\ deleted = {}
    /\ last = NoCall
    /\ pending = NoPending

NextList ==
    \/ Subscriptions
    \/ Return

SpecList == InitList /\ [][NextList]_vars

\* the service started over a table that holds two subscriptions already
InitStored ==
    /\ subscriptions = Stored(2)
    /\ clock \in Instants
    /\ writes = 0
    /\ deleted = {}
    /\ last = NoCall
    /\ pending = NoPending

SpecStored == InitStored /\ [][Next]_vars

----------------------------------------------------------------------------
(* The month-date codec on its own: parseDate applied to a text, and       *)
(* parseTimeToString to the date it returns.                               *)

TwoDigits(n) == <<DigitChar[(n \div 10) + 1], DigitChar[(n % 10) + 1]>>

FourDigits(n) == TwoDigits(n \div 100) \o TwoDigits(n % 100)

CodecYears == {0, 25, 999, 1000, 2024, 2025, 9999}

\* the texts MM-YYYY of every month of CodecYears
MonthTexts ==
    {TwoDigits(m) \o <<"-">> \o FourDigits(y) : m \in 1..12, y \in CodecYears}

\* texts of other forms: a month out of range, the segments swapped, another
\* separator, the empty text, fewer or more digits, a sign, letters, three
\* segments, an empty segment
OtherTexts ==
    {D13_2025, D7s2025, <<>>,
     <<"0", "0", "-", "2", "0", "2", "5">>,
     <<"2", "0", "2", "5", "-", "1", "3">>,
     <<"7", "-", "2", "0", "2", "5">>,
     <<"0", "7", "-", "2", "5">>,
     <<"0", "0", "7", "-", "2", "0", "2", "5">>,
     <<"+", "7", "-", "2", "0", "2", "5">>,
     <<"0", "7", "-", "+", "2", "0", "2", "5">>,
     <<"0", "7", "-", "2", "0", "2", "5", "0">>,
     <<"a", "b", "-", "2", "0", "2", "5">>,
     <<"0", "7", "-", "2", "0", "x", "5">>,
     <<"0", "7", "-", "2", "0", "2", "5", "-", "0", "1">>,
     <<"0", "7", "-">>,
     <<"-", "2", "0", "2", "5">>,
     <<"0", "7", "2", "0", "2", "5">>}

DateTexts == MonthTexts \cup OtherTexts

ParseDate ==
    \E dateStr \in DateTexts :
        LET r == parseDate(dateStr) IN
        /\ last' = [NoCall EXCEPT
                        !.op = "parseDate",
                        !.req = dateStr,
                        !.err = r.err,
                        !.out = IF r.err = NoErr
                                THEN Some([t |-> r.t,
                                           text |-> parseTimeToString(r.t)])
                                ELSE None]
        /\ UNCHANGED <<subscriptions, clock, writes, deleted, pending>>

SpecCodec == Init /\ [][ParseDate]_vars

----------------------------------------------------------------------------
(* An update and a delete of one stored subscription served side by side. *)
(* Each of the two sends one statement to the database, which executes the *)
(* statements one at a time, in any order.                                 *)

\* what a handler answered
Outcome(r) ==
    [out |-> r.out, err |-> r.err, calls |-> r.calls, status |-> r.status]

NoOutcome == [out |-> None, err |-> NoErr, calls |-> <<>>, status |-> 0]

Race(id, body) ==
    [update |-> [pc |-> "arrived", id |-> id, body |-> body, now |-> 0,
                 res |-> NoOutcome],
     delete |-> [pc |-> "arrived", id |-> id, res |-> NoOutcome]]

InitRace ==
    /\ subscriptions = Stored(2)
    /\ clock \in Instants
    /\ writes = 0
    /\ deleted = {}
    /\ last = NoCall
    /\ pending \in {Race(id, body) : id \in IDs, body \in UpdateBodies}

\* updateSubscription up to the statement it sends: a request that the
\* handler or the service rejects is answered here; for the others the
\* repository has read time.Now() and built its UPDATE (or its SELECT)
UpdateSend ==
    LET u == pending.update
        r == updateSubscription(subscriptions, clock, u.id, u.body)
    IN  /\ u.pc = "arrived"
        /\ pending' = IF r.calls = <<>>
                       THEN [pending EXCEPT !.update.pc = "done",
                                            !.update.res = Outcome(r)]
                       ELSE [pending EXCEPT !.update.pc = "sent",
                                            !.update.now = clock]
        /\ UNCHANGED <<subscriptions, clock, writes, deleted, last>>

\* the statement of the update executes, and the handler answers
UpdateStatement ==
    LET u == pending.update
        r == updateSubscription(subscriptions, u.now, u.id, u.body)
    IN  /\ u.pc = "sent"
        /\ subscriptions' = r.db
        /\ writes' = Written(r)
        /\ pending' = [pending EXCEPT !.update.pc = "done",
                                      !.update.res = Outcome(r)]
        /\ UNCHANGED <<clock, deleted, last>>

\* deleteSubscription: its DELETE executes, and the handler answers
DeleteStatement ==
    LET d == pending.delete
        r == deleteSubscription(subscriptions, d.id)
    IN  /\ d.pc = "arrived"
        /\ subscriptions' = r.db
        /\ writes' = Written(r)
        /\ deleted' = IF r.err = NoErr THEN deleted \cup {d.id} ELSE deleted
        /\ pending' = [pending EXCEPT !.delete.pc = "done",
                                      !.delete.res = Outcome(r)]
        /\ UNCHANGED <<clock, last>>

NextRace ==
    \/ UpdateSend
    \/ UpdateStatement
    \/ DeleteStatement
    \/ Tick

SpecRace == InitRace /\ [][NextRace]_vars

-----------------------------------------------------------------------------
(* A client that reads a listing page by page: the same filter and the     *)
(* same page size in every request, the page numbers 1, 2, ... as long as  *)
(* the answer announces a next page.  Nothing writes to the table.  Every  *)
(* request is one call of the handler, whose SELECT has no ORDER BY: each  *)
(* call scans the table in an order of its own.  pending holds the query,  *)
(* the number of the next page and the ids of the pages read so far.       *)

PageSizes == {1, 2}

PageQueries ==
    {[UserID |-> u, ServiceName |-> n, Page |-> 1, PageSize |-> s] :
         u \in {None, Some(User1)}, n \in {None, Some("Netflix")},
         s \in PageSizes}

Walk(query) == [query |-> query, page |-> 1, pages |-> <<>>, more |-> TRUE]

\* the ids of the subscriptions of a page
PageIDs(out) ==
    [i \in 1..Len(out.Subscriptions) |-> out.Subscriptions[i].ID]

InitPages ==
    /\ subscriptions \in {Stored(n) : n \in 0..MaxPaged}
    /\ clock \in Instants
    /\ writes = 0
    /\ deleted = {}
    /\ last = NoCall
    /\ pending \in {Walk(query) : query \in PageQueries}

\* GET /subscriptions/ for the next page, and the client reading the answer
ListPage ==
    \E scan \in Scans(subscriptions) :
        LET r == listSubscriptions(subscriptions, scan,
                     [pending.query EXCEPT !.Page = pending.page])
        IN  /\ pending.more
            /\ subscriptions' = r.db
            /\ last' = Response("Subscriptions", NilUUID, r)
            /\ pending' = [pending EXCEPT
                               !.page = @ + 1,
                               !.pages = Append(@, PageIDs(r.out)),
                               !.more = r.err = NoErr /\ r.out.HasNextPage]
            /\ UNCHANGED <<clock, writes, deleted>>

NextPages == ListPage

SpecPages == InitPages /\ [][NextPages]_vars

----------------------------------------------------------------------------
(* Properties.  They read the inputs through DateOf, the month each        *)
(* well-formed date string of the inputs denotes, and plain arithmetic on  *)
(* instants, not through the operators of the service.                     *)

DateOf ==
    (D07_2025 :> Date(2025, 7)) @@ (D09_2025 :> Date(2025, 9))
        @@ (D12_2024 :> Date(2024, 12))

WellFormed(p) == IsSome(p) => Val(p) \in DOMAIN DateOf

EndsBeforeStart(req) ==
    /\ req.StartDate \in DOMAIN DateOf
    /\ IsSome(req.EndDate)
    /\ Val(req.EndDate) \in DOMAIN DateOf
    /\ DateOf[Val(req.EndDate)] < DateOf[req.StartDate]

\* C1: a CreateSubscription request whose start and end dates both parse
\* and whose end month is earlier than its start month fails with the
\* ordering error, calls no repository method and leaves the table as it was.
C1_OrderingRejected ==
    [][(last'.op = "CreateSubscription" /\ EndsBeforeStart(last'.req))
          => /\ last'.err = ErrOrdering
             /\ last'.calls = <<>>
             /\ subscriptions' = subscriptions]_vars

C1_Witness ==
    /\ last.op = "CreateSubscription"
    /\ EndsBeforeStart(last.req)
    /\ last.err = ErrOrdering
    /\ DOMAIN subscriptions # {}

\* C2: whatever creates, updates and deletes were served, every stored
\* subscription that has an end month has it not before its start month.
C2_EndNotBeforeStart ==
    \A id \in DOMAIN subscriptions :
        IsSome(subscriptions[id].EndDate)
            => Val(subscriptions[id].EndDate) >= subscriptions[id].StartDate

\* an update of the end month alone, to a month before the stored start,
\* was refused
C2_Witness ==
    /\ last.op = "UpdateSubscription"
    /\ ~IsSome(last.req.StartDate)
    /\ WellFormed(last.req.EndDate) /\ IsSome(last.req.EndDate)
    /\ last.id \in DOMAIN subscriptions
    /\ DateOf[Val(last.req.EndDate)] < subscriptions[last.id].StartDate
    /\ last.err = ErrStorage

----------------------------------------------------------------------------
(* The cost of a query, stated on the stored rows and the clock. *)

CostServed == last.op = "SubscriptionsCost"

WellFormedQuery(req) ==
    /\ IsSome(req.UserID) => Val(req.UserID) \in ValidUUIDs
    /\ WellFormed(req.From)
    /\ WellFormed(req.To)

\* the stored rows the filter of a query selects
Selected(req) ==
    {subscriptions[id] : id \in {i \in DOMAIN subscriptions :
         /\ IsSome(req.UserID) => subscriptions[i].UserID = Val(req.UserID)
         /\ IsSome(req.ServiceName)
               => subscriptions[i].ServiceName = Val(req.ServiceName)}}

MonthIndex(t) == t \div TicksPerMonth

ActiveUntil(sub) == IF IsSome(sub.EndDate) THEN Val(sub.EndDate) ELSE clock

ClipStart(sub, req) ==
    IF IsSome(req.From) /\ DateOf[Val(req.From)] > sub.StartDate
    THEN DateOf[Val(req.From)] ELSE sub.StartDate

ClipEnd(sub, req) ==
    IF IsSome(req.To) /\ DateOf[Val(req.To)] < ActiveUntil(sub)
    THEN DateOf[Val(req.To)] ELSE ActiveUntil(sub)

Overlaps(sub, req) == ClipEnd(sub, req) >= ClipStart(sub, req)

Months(sub, req) ==
    (Year(ClipEnd(sub, req)) - Year(ClipStart(sub, req))) * 12
        + (Month(ClipEnd(sub, req)) - Month(ClipStart(sub, req)))

Share(sub, req) == IF Overlaps(sub, req) THEN sub.Price * Months(sub, req) ELSE 0

RECURSIVE SumShares(_, _)
SumShares(subs, req) ==
    IF subs = {} THEN 0
    ELSE LET sub == CHOOSE x \in subs : TRUE
         IN  Share(sub, req) + SumShares(subs \ {sub}, req)

Scenario(sub, req) ==
    /\ sub.Price = 400 /\ sub.StartDate = Date(2025, 7) /\ sub.EndDate = None
    /\ req.From = Some(D07_2025) /\ req.To = Some(D09_2025)
    /\ clock >= Date(2025, 9)

\* C3: a selected subscription whose clipped interval is not empty adds
\* price * ((endYear-startYear)*12 + (endMonth-startMonth)), with no +1:
\* nothing when the interval lies in one month, and 800 for the open-ended
\* subscription of price 400 from 07-2025 queried from 07-2025 to 09-2025
\* at an instant not before 09-2025.  Stated of the queries that select one
\* subscription, whose share is then the whole result.
C3_MonthsWithoutPlusOne ==
    (CostServed /\ WellFormedQuery(last.req)) =>
        \A sub \in Selected(last.req) :
            (Selected(last.req) = {sub} /\ Overlaps(sub, last.req)) =>
                /\ last.out = sub.Price * Months(sub, last.req)
                /\ MonthIndex(ClipEnd(sub, last.req))
                       = MonthIndex(ClipStart(sub, last.req))
                     => last.out = 0
                /\ Scenario(sub, last.req) => last.out = 800

C3_Witness ==
    /\ CostServed
    /\ \E sub \in Selected(last.req) :
           /\ Selected(last.req) = {sub}
           /\ Scenario(sub, last.req)
    /\ last.out = 800

\* C4: a subscription with no end month is active until the evaluation
\* instant: its share runs to the query's `to` when `to` is earlier than
\* now, and to now when `to` is absent or not earlier than now.
C4_OpenEndedUntilNow ==
    (CostServed /\ WellFormedQuery(last.req)) =>
        \A sub \in Selected(last.req) :
            (Selected(last.req) = {sub} /\ sub.EndDate = None) =>
                LET until == IF /\ IsSome(last.req.To)
                                /\ DateOf[Val(last.req.To)] < clock
                             THEN DateOf[Val(last.req.To)] ELSE clock
                    from == ClipStart(sub, last.req)
                IN  last.out = IF until < from THEN 0
                               ELSE sub.Price
                                      * (MonthIndex(until) - MonthIndex(from))

\* `to` is earlier than now and the share stops there, short of now
C4_Witness ==
    /\ CostServed
    /\ IsSome(last.req.To) /\ WellFormedQuery(last.req)
    /\ DateOf[Val(last.req.To)] < clock
    /\ \E sub \in Selected(last.req) :
           /\ Selected(last.req) = {sub}
           /\ sub.EndDate = None
           /\ last.out > 0
           /\ last.out < sub.Price * (MonthIndex(clock)
                                        - MonthIndex(ClipStart(sub, last.req)))

RECURSIVE SumOverlapping(_, _)
SumOverlapping(subs, req) ==
    IF subs = {} THEN 0
    ELSE LET sub == CHOOSE x \in subs : TRUE
         IN  sub.Price * Months(sub, req) + SumOverlapping(subs \ {sub}, req)

\* C5: when a selected subscription's clipped interval is empty, the call
\* succeeds and returns the sum of the shares of the other selected
\* subscriptions: the one without overlap adds 0.
C5_NoOverlapAddsNothing ==
    (/\ CostServed /\ WellFormedQuery(last.req)
     /\ \E sub \in Selected(last.req) : ~Overlaps(sub, last.req)) =>
        /\ last.err = NoErr
        /\ last.out = SumOverlapping(
               {sub \in Selected(last.req) : Overlaps(sub, last.req)}, last.req)

C5_Witness ==
    /\ CostServed /\ WellFormedQuery(last.req)
    /\ \E sub \in Selected(last.req) : ~Overlaps(sub, last.req)
    /\ \E sub \in Selected(last.req) :
           Overlaps(sub, last.req) /\ Months(sub, last.req) > 0
    /\ last.err = NoErr
    /\ last.out > 0

\* C6: SubscriptionsCost returns the sum, over exactly the stored
\* subscriptions that match the optional user-id and service-name filter, of
\* each one's own share; 0 and no error when none matches.
C6_SumOverMatching ==
    (CostServed /\ WellFormedQuery(last.req)) =>
        /\ last.err = NoErr
        /\ last.out = SumShares(Selected(last.req), last.req)
        /\ Selected(last.req) = {} => last.out = 0

\* two subscriptions match a filter and add different positive shares
C6_Witness ==
    /\ CostServed /\ WellFormedQuery(last.req)
    /\ IsSome(last.req.ServiceName)
    /\ \E a, b \in Selected(last.req) :
           /\ Selected(last.req) = {a, b}
           /\ Share(a, last.req) > 0
           /\ Share(b, last.req) > Share(a, last.req)
           /\ last.out = Share(a, last.req) + Share(b, last.req)

\* C7: a cost query with an invalid user-id string, or an invalid `from`
\* or `to` string, returns an error and the repository is not called.
C7_MalformedQueryRejected ==
    (CostServed /\ ~WellFormedQuery(last.req)) =>
        /\ last.err # NoErr
        /\ last.calls = <<>>

C7_Witness ==
    /\ CostServed
    /\ IsSome(last.req.To) /\ ~WellFormed(last.req.To)
    /\ last.err = ErrInvalidDateFormat
    /\ last.calls = <<>>
    /\ DOMAIN subscriptions # {}

----------------------------------------------------------------------------
(* Updates, deletes and reads by identifier. *)

\* out is the output form of row, its months read through DateOf
ShowsRow(out, row) ==
    /\ out.ID = row.ID
    /\ out.ServiceName = row.ServiceName
    /\ out.Price = row.Price
    /\ out.UserID = row.UserID
    /\ out.StartDate \in DOMAIN DateOf
    /\ DateOf[out.StartDate] = row.StartDate
    /\ IsSome(out.EndDate) <=> IsSome(row.EndDate)
    /\ IsSome(out.EndDate) =>
           /\ Val(out.EndDate) \in DOMAIN DateOf
           /\ DateOf[Val(out.EndDate)] = Val(row.EndDate)
    /\ out.CreatedAt = FormatDateTime(row.CreatedAt)
    /\ out.UpdatedAt = FormatDateTime(row.UpdatedAt)

\* C8: an UpdateSubscription that supplies no field writes nothing: every
\* field of every stored subscription, updated_at included, stays as it was;
\* it returns the stored state of the subscription, or NotFound when the
\* identifier is not stored.
C8_EmptyUpdateWritesNothing ==
    [][(last'.op = "UpdateSubscription" /\ last'.req = NoUpdate)
          => /\ subscriptions' = subscriptions
             /\ IF last'.id \in DOMAIN subscriptions
                THEN /\ last'.err = NoErr
                     /\ ShowsRow(last'.out, subscriptions[last'.id])
                ELSE last'.err = ErrNotFound]_vars

\* an empty update served after the clock moved past the last write
C8_Witness ==
    /\ last.op = "UpdateSubscription"
    /\ last.req = NoUpdate
    /\ last.id \in DOMAIN subscriptions
    /\ last.err = NoErr
    /\ subscriptions[last.id].UpdatedAt < clock
    /\ Cardinality(DOMAIN subscriptions) = 2

\* C9: DeleteSubscription of an identifier that is not stored returns
\* NotFound and leaves the table as it was; of a stored one it succeeds and
\* removes that row only.  So the second of two deletes of one identifier
\* returns NotFound.
C9_DeleteReportsNotFound ==
    [][last'.op = "DeleteSubscription"
          => IF last'.id \in DOMAIN subscriptions
             THEN /\ last'.err = NoErr
                  /\ DOMAIN subscriptions' = DOMAIN subscriptions \ {last'.id}
                  /\ \A i \in DOMAIN subscriptions' :
                         subscriptions'[i] = subscriptions[i]
             ELSE /\ last'.err = ErrNotFound
                  /\ subscriptions' = subscriptions]_vars

\* the identifier was deleted before, and this delete returned NotFound
C9_Witness ==
    /\ last.op = "DeleteSubscription"
    /\ last.id \in deleted
    /\ last.id \notin DOMAIN subscriptions
    /\ last.err = ErrNotFound

\* C10: SubscriptionByID returns NotFound for an identifier that is not
\* stored and the current fields of the row for a stored one; a success
\* never carries the zero value.
C10_ByIDFoundOrNotFound ==
    last.op = "SubscriptionByID" =>
        /\ IF last.id \in DOMAIN subscriptions
           THEN /\ last.err = NoErr
                /\ ShowsRow(last.out, subscriptions[last.id])
           ELSE last.err = ErrNotFound
        /\ last.err = NoErr => last.out # ZeroOutput

\* a subscription that was created and then deleted is looked up
C10_Witness ==
    /\ last.op = "SubscriptionByID"
    /\ last.id \in deleted
    /\ last.id \notin DOMAIN subscriptions
    /\ last.err = ErrNotFound

----------------------------------------------------------------------------
(* Pagination *)

Listed == last.op = "Subscriptions" /\ last.err = NoErr

\* C11: for every page >= 1 and every page size in 1..100, Subscriptions
\* asks the repository for limit = pageSize and offset = (page - 1) *
\* pageSize, and answers has_next_page = (total > page * pageSize) and
\* has_prev_page = (page > 1); a total of 42 on page 5 of 10 gives
\* has_next_page false and has_prev_page true.
C11_PageArithmetic ==
    Listed =>
        /\ last.req.Page >= 1 /\ last.req.PageSize \in 1..100
        /\ last.calls = <<"Subscriptions">>
        /\ Val(last.asked).Limit = last.req.PageSize
        /\ Val(last.asked).Offset = (last.req.Page - 1) * last.req.PageSize
        /\ last.out.Page = last.req.Page
        /\ last.out.PageSize = last.req.PageSize
        /\ last.out.HasNextPage
               <=> last.out.Total > last.req.Page * last.req.PageSize
        /\ last.out.HasPrevPage <=> last.req.Page > 1
        /\ (last.out.Total = 42 /\ last.req.Page = 5
                /\ last.req.PageSize = 10)
               => ~last.out.HasNextPage /\ last.out.HasPrevPage

\* the fifth page of ten of 42 subscriptions: its last two
C11_Witness ==
    /\ Listed
    /\ last.out.Total = 42
    /\ last.req.Page = 5
    /\ last.req.PageSize = 10
    /\ Len(last.out.Subscriptions) = 2
    /\ ~last.out.HasNextPage
    /\ last.out.HasPrevPage

\* the user-id filter of a list request is not the text of a UUID
BadUserFilter(req) == IsSome(req.UserID) /\ Val(req.UserID) \notin ValidUUIDs

\* what a list request selects: rows of the table, or rows of a page
Wanted(req, x) ==
    /\ IsSome(req.UserID) => x.UserID = Val(req.UserID)
    /\ IsSome(req.ServiceName) => x.ServiceName = Val(req.ServiceName)

\* C20: Subscriptions returns as total the number of stored subscriptions
\* that match the optional user-id and service-name filters; every row of
\* the page is a stored subscription that matches them, and the page has at
\* most pageSize rows; a user id that is no UUID is rejected before any
\* repository call.
C20_ListMatchesFilter ==
    last.op = "Subscriptions" =>
        IF BadUserFilter(last.req)
        THEN last.err = ErrInvalidUserID /\ last.calls = <<>>
        ELSE /\ last.err = NoErr
             /\ last.out.Total
                    = Cardinality({id \in DOMAIN subscriptions :
                          Wanted(last.req, subscriptions[id])})
             /\ Len(last.out.Subscriptions) <= last.req.PageSize
             /\ \A i \in 1..Len(last.out.Subscriptions) :
                    /\ Wanted(last.req, last.out.Subscriptions[i])
                    /\ last.out.Subscriptions[i].ID \in DOMAIN subscriptions
                    /\ last.out.Subscriptions[i]
                           = subscriptionToDto(
                                 subscriptions[last.out.Subscriptions[i].ID])

\* a page of one of the subscriptions of one user, who has some but not all
\* of the stored ones
C20_Witness ==
    /\ Listed
    /\ IsSome(last.req.UserID)
    /\ last.out.Total > 1
    /\ last.out.Total < Cardinality(DOMAIN subscriptions)
    /\ Len(last.out.Subscriptions) = 1
    /\ last.req.PageSize = 1

----------------------------------------------------------------------------
(* The codec *)

Parsed == last.op = "parseDate"

IsDigit(c) == c \in DOMAIN DigitVal

\* two digits, a hyphen, four digits, the two digits a month of the year
ExactForm(s) ==
    /\ Len(s) = 7
    /\ s[3] = "-"
    /\ \A i \in {1, 2, 4, 5, 6, 7} : IsDigit(s[i])
    /\ DigitVal[s[1]] * 10 + DigitVal[s[2]] \in 1..12

\* C12: every text of the exact form MM-YYYY (month 01..12, year
\* 0000..9999) is parsed, and parseTimeToString gives the text back.
C12_RoundTrip ==
    (Parsed /\ ExactForm(last.req)) =>
        /\ last.err = NoErr
        /\ Val(last.out).text = last.req

\* the hyphens of a text: one more segment than hyphens
Hyphens(s) == Cardinality({i \in 1..Len(s) : s[i] = "-"})

\* the segment before the only hyphen, and the one after it
FirstSegment(s) == SubSeq(s, 1, (CHOOSE i \in 1..Len(s) : s[i] = "-") - 1)

SecondSegment(s) == SubSeq(s, (CHOOSE i \in 1..Len(s) : s[i] = "-") + 1, Len(s))

Numeric(seg) == seg # <<>> /\ \A i \in 1..Len(seg) : IsDigit(seg[i])

\* C13: parseDate returns a date only for the texts of the exact form
\* MM-YYYY, and then the first instant of that month; every other text is
\* rejected: with InvalidDateFormat when it has not two segments, with
\* InvalidDate when a segment is not numeric or the month is outside 1..12.
\* "13-2025", "00-2025", "2025-13", "7/2025" and "" are rejected.
C13_OnlyExactForm ==
    Parsed =>
        /\ last.err = NoErr =>
               /\ ExactForm(last.req)
               /\ Val(last.out).t % TicksPerMonth = 0
        /\ ~ExactForm(last.req) => last.err # NoErr
        /\ Hyphens(last.req) # 1 => last.err = ErrInvalidDateFormat
        /\ (/\ Hyphens(last.req) = 1
            /\ \/ ~Numeric(FirstSegment(last.req))
               \/ ~Numeric(SecondSegment(last.req))
               \/ DigitsValue(FirstSegment(last.req)) \notin 1..12)
               => last.err = ErrInvalidDate

----------------------------------------------------------------------------
(* The transport boundary *)

ClientError(status) == status \in 400..499

\* the update request has no malformed field and no end before its start
WellFormedUpdate(req) ==
    /\ WellFormed(req.StartDate)
    /\ WellFormed(req.EndDate)
    /\ ~(/\ IsSome(req.StartDate) /\ IsSome(req.EndDate)
          /\ DateOf[Val(req.EndDate)] < DateOf[Val(req.StartDate)])
    /\ IsSome(req.Price) => Val(req.Price) >= 0

\* C14: a get, an update or a delete addressed to an identifier that is not
\* stored is answered with the status 404, never with the generic internal
\* failure.
C14_MissingIsNotFound ==
    [][(/\ last'.op \in {"SubscriptionByID", "UpdateSubscription",
                         "DeleteSubscription"}
        /\ last'.id \notin DOMAIN subscriptions
        /\ last'.op = "UpdateSubscription" => WellFormedUpdate(last'.req))
          => /\ last'.status = StatusNotFound
             /\ last'.msg # MsgInternal]_vars

\* the request carries a date that does not parse, an end before its start,
\* or a malformed user id
Malformed(op, req) ==
    CASE op = "CreateSubscription" ->
             \/ req.StartDate \notin DOMAIN DateOf
             \/ ~WellFormed(req.EndDate)
             \/ EndsBeforeStart(req)
             \/ req.UserID \notin ValidUUIDs
      [] op = "UpdateSubscription" ->
             \/ ~WellFormed(req.StartDate)
             \/ ~WellFormed(req.EndDate)
             \/ /\ IsSome(req.StartDate) /\ IsSome(req.EndDate)
                /\ DateOf[Val(req.EndDate)] < DateOf[Val(req.StartDate)]
      [] op = "Subscriptions" ->
             IsSome(req.UserID) /\ Val(req.UserID) \notin ValidUUIDs
      [] op = "SubscriptionsCost" -> ~WellFormedQuery(req)
      [] OTHER -> FALSE

\* C15: a create, update, list or cost request with malformed input (a date
\* that does not parse, an end before the start, a malformed user id) is
\* answered as a client error that carries the reason, never as the generic
\* internal failure.
C15_MalformedIsClientError ==
    Malformed(last.op, last.req) =>
        /\ ClientError(last.status)
        /\ last.msg # MsgInternal

----------------------------------------------------------------------------
(* Writes *)

\* C16: whatever creates and updates were served, every stored price is
\* above zero; a create or an update that carries a price of zero or less
\* fails and leaves the table as it was.
C16_PricePositive ==
    [][/\ \A id \in DOMAIN subscriptions' : subscriptions'[id].Price > 0
       /\ (last'.op = "CreateSubscription" /\ last'.req.Price <= 0)
              => subscriptions' = subscriptions /\ last'.err # NoErr
       /\ (/\ last'.op = "UpdateSubscription"
           /\ IsSome(last'.req.Price)
           /\ Val(last'.req.Price) <= 0)
              => subscriptions' = subscriptions /\ last'.err # NoErr]_vars

\* a price of zero passed the validation of an update, reached the table
\* with a stored row and was refused there
C16_Witness ==
    /\ last.op = "UpdateSubscription"
    /\ IsSome(last.req.Price)
    /\ Val(last.req.Price) = 0
    /\ last.id \in DOMAIN subscriptions
    /\ last.calls = <<"UpdateSubscription">>
    /\ last.err = ErrStorage

Updated == last.op = "UpdateSubscription" /\ last.req # NoUpdate

\* the row that old becomes when the fields req supplies are written at now
Rewritten(old, req, now) ==
    [ID |-> old.ID,
     UserID |-> old.UserID,
     CreatedAt |-> old.CreatedAt,
     ServiceName |-> IF IsSome(req.ServiceName) THEN Val(req.ServiceName)
                     ELSE old.ServiceName,
     Price |-> IF IsSome(req.Price) THEN Val(req.Price) ELSE old.Price,
     StartDate |-> IF IsSome(req.StartDate) THEN DateOf[Val(req.StartDate)]
                   ELSE old.StartDate,
     EndDate |-> IF IsSome(req.EndDate) THEN Some(DateOf[Val(req.EndDate)])
                 ELSE old.EndDate,
     UpdatedAt |-> now]

\* C17: an UpdateSubscription that supplies at least one field and succeeds
\* sets exactly the supplied fields of that row to the supplied values and
\* its updated_at to the instant of the write, and leaves its other fields
\* (id, owner and created_at among them) and every other row as they were;
\* one that fails leaves the table as it was.
C17_OnlySuppliedFieldsChange ==
    [][Updated' =>
          IF last'.err = NoErr
          THEN /\ last'.id \in DOMAIN subscriptions
               /\ DOMAIN subscriptions' = DOMAIN subscriptions
               /\ subscriptions'[last'.id]
                      = Rewritten(subscriptions[last'.id], last'.req, clock)
               /\ \A i \in DOMAIN subscriptions \ {last'.id} :
                      subscriptions'[i] = subscriptions[i]
          ELSE subscriptions' = subscriptions]_vars

\* one of two stored rows was given another price, after it was created
C17_Witness ==
    /\ Updated
    /\ last.err = NoErr
    /\ IsSome(last.req.Price)
    /\ ~IsSome(last.req.ServiceName)
    /\ Cardinality(DOMAIN subscriptions) = 2
    /\ subscriptions[last.id].Price = Val(last.req.Price)
    /\ subscriptions[last.id].UpdatedAt = clock
    /\ subscriptions[last.id].CreatedAt < clock
    /\ \E i \in DOMAIN subscriptions : i # last.id

\* the dates an update request supplies all parse
DatesParse(req) == WellFormed(req.StartDate) /\ WellFormed(req.EndDate)

\* C18: an UpdateSubscription that supplies both dates, the end before the
\* start, is rejected with the ordering error before any repository call;
\* one that supplies only one of the two dates is not compared with the
\* stored date by the service: it is forwarded to the repository.
C18_OrderingOnlyWhenBothSupplied ==
    [][(last'.op = "UpdateSubscription" /\ last'.err # ErrValidation
           /\ DatesParse(last'.req))
          => /\ (/\ IsSome(last'.req.StartDate) /\ IsSome(last'.req.EndDate)
                 /\ DateOf[Val(last'.req.EndDate)]
                        < DateOf[Val(last'.req.StartDate)])
                    => /\ last'.err = ErrOrdering
                       /\ last'.calls = <<>>
                       /\ subscriptions' = subscriptions
             /\ (IsSome(last'.req.StartDate) # IsSome(last'.req.EndDate))
                    => /\ last'.calls = <<"UpdateSubscription">>
                       /\ last'.err \in {NoErr, ErrNotFound, ErrStorage}]_vars

\* a start month alone, later than the stored end month, went to the
\* repository and was refused by the table
C18_Witness ==
    /\ last.op = "UpdateSubscription"
    /\ IsSome(last.req.StartDate)
    /\ ~IsSome(last.req.EndDate)
    /\ DatesParse(last.req)
    /\ last.id \in DOMAIN subscriptions
    /\ IsSome(subscriptions[last.id].EndDate)
    /\ Val(subscriptions[last.id].EndDate) < DateOf[Val(last.req.StartDate)]
    /\ last.calls = <<"UpdateSubscription">>
    /\ last.err = ErrStorage

\* C19: a partial update tells an absent end_date from an end_date that is
\* null, which clears it: for every stored subscription with an end month
\* there is an update request that makes it open-ended again.
C19_NullClearsEndDate ==
    \A id \in DOMAIN subscriptions :
        IsSome(subscriptions[id].EndDate) =>
            \E body \in UpdateBodies :
                LET r == updateSubscription(subscriptions, clock, id, body)
                IN  /\ r.err = NoErr
                    /\ r.db[id].EndDate = None

----------------------------------------------------------------------------
(* An update and a delete side by side *)

BothDone == pending.update.pc = "done" /\ pending.delete.pc = "done"

\* the update request is one that the stored row accepts when it is served
\* alone: its dates parse, its price is above zero, and the end month of
\* the row it leaves is not before the start month
Acceptable(id, req) ==
    /\ WellFormed(req.StartDate)
    /\ WellFormed(req.EndDate)
    /\ IsSome(req.Price) => Val(req.Price) > 0
    /\ LET start == IF IsSome(req.StartDate) THEN DateOf[Val(req.StartDate)]
                     ELSE Stored(2)[id].StartDate
           end == IF IsSome(req.EndDate) THEN Some(DateOf[Val(req.EndDate)])
                  ELSE Stored(2)[id].EndDate
       IN  IsSome(end) => Val(end) >= start

\* C21: when an UpdateSubscription and a DeleteSubscription of one stored
\* identifier are served side by side, either the update succeeds and the
\* delete then removes the row, or the delete removes the row and the update
\* returns NotFound.  In every interleaving the delete succeeds, the
\* subscription is absent afterwards, a deleted subscription is never stored
\* again and the other subscription is as it was.
C21_UpdateDeleteRace ==
    /\ \A i \in deleted : i \notin DOMAIN subscriptions
    /\ \A i \in DOMAIN Stored(2) \ {pending.update.id} :
           i \in DOMAIN subscriptions /\ subscriptions[i] = Stored(2)[i]
    /\ DOMAIN subscriptions \subseteq DOMAIN Stored(2)
    /\ BothDone =>
           /\ pending.delete.res.err = NoErr
           /\ pending.update.id \notin DOMAIN subscriptions
           /\ Acceptable(pending.update.id, BindJSON(pending.update.body))
                  => pending.update.res.err \in {NoErr, ErrNotFound}

\* the update read the clock and sent its statement, the delete ran first,
\* and the update found no row
C21_Witness ==
    /\ BothDone
    /\ BindJSON(pending.update.body) # NoUpdate
    /\ pending.update.res.err = ErrNotFound
    /\ pending.update.res.calls = <<"UpdateSubscription">>
    /\ pending.update.now < clock
    /\ pending.delete.res.err = NoErr

-----------------------------------------------------------------------------
(* The window of a cost query: one query is compared with the queries the  *)
(* same table would answer at the same instant.                            *)

\* the total the handler answers for a query, the table and the clock as
\* they are
TotalFor(req) == subscriptionsCost(subscriptions, clock, req).out

\* the window of wide opens no later and closes no earlier than the one of
\* narrow; an absent limit is the widest
OpensNoLater(wide, narrow) ==
    \/ wide.From = None
    \/ IsSome(narrow.From) /\ DateOf[Val(wide.From)] <= DateOf[Val(narrow.From)]

ClosesNoEarlier(wide, narrow) ==
    \/ wide.To = None
    \/ IsSome(narrow.To) /\ DateOf[Val(wide.To)] >= DateOf[Val(narrow.To)]

Widens(wide, narrow) ==
    /\ WellFormedQuery(wide)
    /\ wide.UserID = narrow.UserID
    /\ wide.ServiceName = narrow.ServiceName
    /\ OpensNoLater(wide, narrow)
    /\ ClosesNoEarlier(wide, narrow)

\* C22: with the stored subscriptions, the filter and the instant fixed and
\* all prices positive, a cost query with a wider window (an earlier or
\* absent from, a later or absent to) never has a smaller total, and the
\* total is never negative.
C22_WiderWindowCostsNoLess ==
    (CostServed /\ WellFormedQuery(last.req)) =>
        /\ last.out >= 0
        /\ \A wide \in CostRequests :
               Widens(wide, last.req) =>
                   /\ TotalFor(wide) >= last.out
                   /\ TotalFor(wide) >= 0

\* a positive total that a window opening earlier raises and a window
\* closing later raises
C22_Witness ==
    /\ CostServed /\ WellFormedQuery(last.req)
    /\ last.out > 0
    /\ \E wide \in CostRequests :
           /\ Widens(wide, last.req)
           /\ wide.From = None /\ IsSome(last.req.From)
           /\ TotalFor(wide) > last.out
    /\ \E wide \in CostRequests :
           /\ Widens(wide, last.req)
           /\ wide.To = None /\ IsSome(last.req.To)
           /\ TotalFor(wide) > last.out

\* the months at which a window is split
SplitMonths == DOMAIN DateOf

\* C23: with the stored subscriptions, the filter and the instant fixed,
\* for all months a <= b <= c the total from a to b plus the total from b
\* to c is the total from a to c.
C23_WindowSplitsAdd ==
    (CostServed /\ WellFormedQuery(last.req)
        /\ IsSome(last.req.From) /\ IsSome(last.req.To)) =>
        \A b \in SplitMonths :
            (DateOf[Val(last.req.From)] <= DateOf[b]
                /\ DateOf[b] <= DateOf[Val(last.req.To)]) =>
                TotalFor([last.req EXCEPT !.To = Some(b)])
                    + TotalFor([last.req EXCEPT !.From = Some(b)])
                    = last.out

\* a window split strictly inside it, each part with a positive total
C23_Witness ==
    /\ CostServed /\ WellFormedQuery(last.req)
    /\ IsSome(last.req.From) /\ IsSome(last.req.To)
    /\ \E b \in SplitMonths :
           /\ DateOf[Val(last.req.From)] < DateOf[b]
           /\ DateOf[b] < DateOf[Val(last.req.To)]
           /\ TotalFor([last.req EXCEPT !.To = Some(b)]) > 0
           /\ TotalFor([last.req EXCEPT !.From = Some(b)]) > 0
           /\ last.out > TotalFor([last.req EXCEPT !.To = Some(b)])

-----------------------------------------------------------------------------
(* The pages of a listing *)

\* every page up to the last one has been read
AllPagesRead == ~pending.more

\* the places, page and position, at which id was returned
PlacesOf(id) ==
    {pi \in UNION {{<<p, i>> : i \in 1..Len(pending.pages[p])} :
                       p \in 1..Len(pending.pages)} :
         pending.pages[pi[1]][pi[2]] = id}

\* C24: with the store unchanged between calls, listing pages
\* 1..ceil(total/pageSize) with the same filter and the same page size
\* returns every matching subscription on exactly one page: none is
\* repeated across pages and none is missing.
C24_EachOnExactlyOnePage ==
    AllPagesRead =>
        \A id \in DOMAIN subscriptions :
            Wanted(pending.query, subscriptions[id])
                => Cardinality(PlacesOf(id)) = 1

====
